---- MODULE Spec2Model ----
(***************************************************************************)
(* Model of src/main.py: the batch frame extractor.                        *)
(*                                                                         *)
(* extract_frames enumerates the video files of a list of directories,     *)
(* maps process_video over them in a process pool, sums the returned       *)
(* counts and the sizes of the .png files of the output directory.         *)
(* process_video opens one video, steps through it with a frame interval,  *)
(* and writes every frame it reads as <stem>_frame_NNNN.png.               *)
(*                                                                         *)
(* Frame rates are rationals fpsN / FpsDen, so that non-integer rates and  *)
(* the conversion int(fps * seconds) are represented exactly.              *)
(***************************************************************************)
EXTENDS Integers, Sequences, FiniteSets, TLC

(* ------------------------------ bounds -------------------------------- *)
FpsDen == 2          \* frame rates are multiples of 1/FpsDen
MaxFpsN == 4         \* largest frame-rate numerator (MaxFpsN / FpsDen fps)
MaxFrames == 4       \* largest CAP_PROP_FRAME_COUNT
MaxNegInterval == 1  \* the user may type intervals down to -MaxNegInterval seconds
MaxInterval == 2     \* largest interval (seconds) typed by the user
MaxDivisor == 3      \* largest size divisor typed by the user
MaxFiles == 2        \* most files present in the input directories (batch inputs)
MaxCpus == 3         \* largest cpu_count()
FrameH == 2          \* height of the decoded frames
FrameW == 3          \* width of the decoded frames

(* -------------------------- program constants ------------------------- *)
PadWidth == 4        \* {saved_frame_count:04d}
UnitStep == 1024     \* formatted_size /= 1024
size_units == <<"B", "KB", "MB", "GB">>
VideoExts == {".mp4", ".ts"}

(* ------------------------------ inputs -------------------------------- *)
Dirs == {"d1", "d2"}

\* the file names a directory can hold, in listing order
FileNames ==
  << [stem |-> "a", ext |-> ".mp4"],
     [stem |-> "a", ext |-> ".TS"],
     [stem |-> "n", ext |-> ".txt"] >>

NameSet == {FileNames[k] : k \in 1..Len(FileNames)}

\* str.lower() on the extension of a file name
Lower(ext) ==
  CASE ext = ".MP4" -> ".mp4"
    [] ext = ".TS" -> ".ts"
    [] ext = ".TXT" -> ".txt"
    [] OTHER -> ext

NoFile == [present |-> FALSE, opens |-> FALSE, fpsN |-> 0, total |-> 0]
Unopenable == [present |-> TRUE, opens |-> FALSE, fpsN |-> 0, total |-> 0]

\* what cv2.VideoCapture reports for a file
DeepProps ==
  {Unopenable} \cup
  [present : {TRUE}, opens : {TRUE}, fpsN : 0..MaxFpsN, total : 0..MaxFrames]

BatchProps ==
  { Unopenable,
    [present |-> TRUE, opens |-> TRUE, fpsN |-> 0, total |-> 2],
    [present |-> TRUE, opens |-> TRUE, fpsN |-> FpsDen, total |-> 2] }

PropsFor(name, props) ==
  IF Lower(name.ext) \in VideoExts THEN props ELSE {Unopenable}

Intervals == (-MaxNegInterval)..MaxInterval
Divisors == 0..MaxDivisor

\* what the output directory holds before the run
OldFiles ==
  { [name |-> [stem |-> "old", digits |-> <<>>, ext |-> ".png"],
     size |-> 2 * UnitStep, by |-> 0, src |-> 0],
    [name |-> [stem |-> "notes", digits |-> <<>>, ext |-> ".txt"],
     size |-> 5, by |-> 0, src |-> 0] }

VARIABLES
  video_dir_paths,          \* argument: sequence of directories
  fs,                       \* fs[d][name]: the file of that name in directory d
  frame_interval_seconds,   \* argument
  divisor,                  \* argument
  cpus,                     \* cpu_count()
  pc,                       \* position of extract_frames
  outdir,                   \* files of the output directory
  video_paths,              \* the enumerated video files
  task,                     \* task[i]: the process_video call on video_paths[i]
  finished,                 \* task indices in the order the calls ended
  results,                  \* what pool.map returned
  report                    \* total_saved_frames, total_size, formatted_size, size_index

vars == <<video_dir_paths, fs, frame_interval_seconds, divisor, cpus, pc,
          outdir, video_paths, task, finished, results, report>>

inputs == <<video_dir_paths, fs, frame_interval_seconds, divisor, cpus>>

(* ------------------------------ helpers ------------------------------- *)
Abs(x) == IF x < 0 THEN -x ELSE x

\* int(n / d) for d > 0: truncation toward zero
TruncDiv(n, d) == IF n >= 0 THEN n \div d ELSE -((-n) \div d)

\* round(n / d) for d > 0: nearest integer, halves to the even neighbour
RoundDiv(n, d) ==
  LET q == n \div d
      r == n % d
  IN  IF 2 * r < d THEN q
      ELSE IF 2 * r > d THEN q + 1
      ELSE IF q % 2 = 0 THEN q ELSE q + 1

\* int() read as rounding to the nearest integer
FrameIntervalRounded(fpsN, seconds) == RoundDiv(fpsN * seconds, FpsDen)

\* line 25: frame_interval = int(video_fps * frame_interval_seconds)
FrameInterval(fpsN, seconds) == TruncDiv(fpsN * seconds, FpsDen)

RECURSIVE Digits(_)
Digits(n) == IF n < 10 THEN <<n>> ELSE Digits(n \div 10) \o <<n % 10>>

RECURSIVE Pad(_, _)
Pad(s, w) == IF Len(s) >= w THEN s ELSE Pad(<<0>> \o s, w)

\* line 51: f"{stem}_frame_{saved_frame_count:04d}.png"
FrameFileName(stem, n) ==
  [stem |-> stem, digits |-> Pad(Digits(n), PadWidth), ext |-> ".png"]

\* size of the PNG written for a frame of h x w pixels, 3 channels, uncompressed
PngSize(h, w) == 3 * h * w + 8

\* range(0, total_frames, frame_interval): is c one of its values?
InRange(c, total, step) == step > 0 /\ c < total

\* a range that steps one frame too far
NextFrameCountOff(c, step) == c + step + 1

\* the value of the range after c
NextFrameCount(c, step) == c + step

\* a counter that skips an index
NextSavedCountSkip(n) == n + 2

\* saved_frame_count += 1
NextSavedCount(n) == n + 1

\* cv2.imwrite: the file replaces one of the same name
WriteFile(dir, f) == {g \in dir : g.name # f.name} \cup {f}

\* os.listdir(d), in listing order
RECURSIVE ListFrom(_, _)
ListFrom(d, k) ==
  IF k > Len(FileNames) THEN <<>>
  ELSE (IF fs[d][FileNames[k]].present THEN <<FileNames[k]>> ELSE <<>>)
       \o ListFrom(d, k + 1)

listdir(d) == ListFrom(d, 1)

\* lines 81-83: the video files of one directory
RECURSIVE VideosOf(_, _)
VideosOf(d, names) ==
  IF names = <<>> THEN <<>>
  ELSE (IF Lower(Head(names).ext) \in VideoExts
          THEN <<[dir |-> d, base |-> Head(names)]>>
          ELSE <<>>)
       \o VideosOf(d, Tail(names))

\* lines 79-83: all video paths, directory by directory
RECURSIVE CollectVideos(_)
CollectVideos(dirs) ==
  IF dirs = <<>> THEN <<>>
  ELSE VideosOf(Head(dirs), listdir(Head(dirs))) \o CollectVideos(Tail(dirs))

\* line 89
NumProcesses == IF cpus - 1 > 1 THEN cpus - 1 ELSE 1

RECURSIVE SumSeq(_)
SumSeq(s) == IF s = <<>> THEN 0 ELSE Head(s) + SumSeq(Tail(s))

\* lines 101-105: sizes of the .png files of the output directory
RECURSIVE PngBytes(_)
PngBytes(dir) ==
  IF dir = {} THEN 0
  ELSE LET f == CHOOSE g \in dir : TRUE
       IN  (IF f.name.ext = ".png" THEN f.size ELSE 0) + PngBytes(dir \ {f})

\* lines 108-114: formatted_size = num / den in unit size_units[index + 1]
RECURSIVE Scale(_, _, _)
Scale(num, den, index) ==
  IF num >= UnitStep * den /\ index < Len(size_units) - 1
    THEN Scale(num, den * UnitStep, index + 1)
    ELSE [num |-> num, den |-> den, index |-> index]

\* results in the order the tasks ended (imap_unordered)
MapResultsUnordered(t, fin) == [i \in 1..Len(t) |-> t[fin[i]].ret]

\* pool.map: the results in the order of the inputs
MapResults(t, fin) == [i \in 1..Len(t) |-> t[i].ret]

NewTask(path) ==
  [pc |-> "queued", handle |-> "none", filename |-> path.base,
   fpsN |-> 0, frame_interval |-> 0, total_frames |-> 0,
   frame_count |-> 0, saved_frame_count |-> 0, broke |-> FALSE,
   seeks |-> <<>>, written |-> <<>>, ret |-> -1, exc |-> "none"]

Running == {i \in DOMAIN task : task[i].pc \in {"loop", "release"}}
Ended(i) == task[i].pc \in {"returned", "raised"}

(* ------------------------------- Init --------------------------------- *)
NoReport == [total_saved_frames |-> -1, total_size |-> -1,
             formatted |-> [num |-> 0, den |-> 1, index |-> 0]]

Present(f) == {dn \in Dirs \X NameSet : f[dn[1]][dn[2]].present}

InitState ==
  /\ pc = "start"
  /\ video_paths = <<>>
  /\ task = <<>>
  /\ finished = <<>>
  /\ results = <<>>
  /\ report = NoReport

\* one video, every frame rate, length, interval and divisor
InitDeep ==
  /\ video_dir_paths = <<"d1">>
  /\ \E p \in DeepProps :
       fs = [d \in Dirs |-> [n \in NameSet |->
               IF d = "d1" /\ n = FileNames[1] THEN p ELSE NoFile]]
  /\ frame_interval_seconds \in Intervals
  /\ divisor \in Divisors
  /\ cpus = 1
  /\ outdir \in {{}, OldFiles}
  /\ InitState

\* several files in several directories
InitBatch ==
  /\ video_dir_paths \in {<<"d1">>, <<"d1", "d1">>, <<"d1", "d2">>}
  /\ fs \in [Dirs -> [NameSet -> BatchProps \cup {NoFile}]]
  /\ \A d \in Dirs : \A n \in NameSet :
       fs[d][n].present => fs[d][n] \in PropsFor(n, BatchProps)
  /\ Cardinality(Present(fs)) <= MaxFiles
  /\ frame_interval_seconds \in {0, 1}
  /\ divisor = 1
  /\ cpus \in {1, MaxCpus}
  /\ outdir \in {{}, OldFiles}
  /\ InitState

Init == InitDeep \/ InitBatch

(* ------------------------------ actions ------------------------------- *)
\* lines 73-92: create the output directory, collect the video files
Enumerate ==
  /\ pc = "start"
  /\ video_paths' = CollectVideos(video_dir_paths)
  /\ task' = [i \in 1..Len(video_paths') |-> NewTask(video_paths'[i])]
  /\ pc' = "map"
  /\ UNCHANGED <<inputs, outdir, finished, results, report>>

\* lines 11-32, run by a free pool worker on the next queued task
Begin(i) ==
  /\ pc = "map"
  /\ task[i].pc = "queued"
  /\ \A j \in 1..(i - 1) : task[j].pc # "queued"
  /\ Cardinality(Running) < NumProcesses
  /\ LET v == fs[video_paths[i].dir][video_paths[i].base]
     IN  IF ~v.opens
           THEN /\ task' = [task EXCEPT ![i].pc = "returned",
                                        ![i].handle = "closed",
                                        ![i].ret = 0]
                /\ finished' = Append(finished, i)
         ELSE IF v.fpsN = 0
           THEN /\ task' = [task EXCEPT ![i].pc = "returned",
                                        ![i].handle = "open",
                                        ![i].ret = 0]
                /\ finished' = Append(finished, i)
         ELSE /\ task' = [task EXCEPT
                   ![i].pc = "loop",
                   ![i].handle = "open",
                   ![i].fpsN = v.fpsN,
                   ![i].frame_interval = FrameInterval(v.fpsN, frame_interval_seconds),
                   ![i].total_frames = v.total,
                   ![i].frame_count = 0,
                   ![i].saved_frame_count = 0]
              /\ finished' = finished
  /\ UNCHANGED <<inputs, pc, outdir, video_paths, results, report>>

\* line 35 with a zero step: range() raises ValueError
RangeRaises(i) ==
  /\ pc = "map"
  /\ task[i].pc = "loop"
  /\ task[i].frame_interval = 0
  /\ task' = [task EXCEPT ![i].pc = "raised", ![i].exc = "ValueError"]
  /\ finished' = Append(finished, i)
  /\ UNCHANGED <<inputs, pc, outdir, video_paths, results, report>>

\* line 35: the range is exhausted
LoopEnds(i) ==
  /\ pc = "map"
  /\ task[i].pc = "loop"
  /\ task[i].frame_interval # 0
  /\ ~InRange(task[i].frame_count, task[i].total_frames, task[i].frame_interval)
  /\ task' = [task EXCEPT ![i].pc = "release"]
  /\ UNCHANGED <<inputs, pc, outdir, video_paths, finished, results, report>>

\* lines 35-53: one iteration; ok is what video.read() returns
Iterate(i, ok) ==
  /\ pc = "map"
  /\ task[i].pc = "loop"
  /\ task[i].frame_interval # 0
  /\ InRange(task[i].frame_count, task[i].total_frames, task[i].frame_interval)
  /\ LET t == task[i]
         sought == Append(t.seeks, t.frame_count)
         name == FrameFileName(t.filename.stem, t.saved_frame_count)
     IN  IF ~ok
           THEN /\ task' = [task EXCEPT ![i].pc = "release",
                                        ![i].broke = TRUE,
                                        ![i].seeks = sought]
                /\ UNCHANGED <<outdir, finished>>
         ELSE IF divisor = 0
           THEN /\ task' = [task EXCEPT ![i].pc = "raised",
                                        ![i].exc = "ZeroDivisionError",
                                        ![i].seeks = sought]
                /\ finished' = Append(finished, i)
                /\ UNCHANGED outdir
         ELSE IF FrameH \div divisor = 0 \/ FrameW \div divisor = 0
           THEN /\ task' = [task EXCEPT ![i].pc = "raised",
                                        ![i].exc = "cv2.error",
                                        ![i].seeks = sought]
                /\ finished' = Append(finished, i)
                /\ UNCHANGED outdir
         ELSE /\ outdir' = WriteFile(outdir,
                   [name |-> name,
                    size |-> PngSize(FrameH \div divisor, FrameW \div divisor),
                    by |-> i, src |-> t.frame_count])
              /\ task' = [task EXCEPT
                   ![i].seeks = sought,
                   ![i].written = Append(t.written, [name |-> name, pos |-> t.frame_count]),
                   ![i].saved_frame_count = NextSavedCount(t.saved_frame_count),
                   ![i].frame_count = NextFrameCount(t.frame_count, t.frame_interval)]
              /\ UNCHANGED finished
  /\ UNCHANGED <<inputs, pc, video_paths, results, report>>

\* lines 55-57
Release(i) ==
  /\ pc = "map"
  /\ task[i].pc = "release"
  /\ task' = [task EXCEPT ![i].pc = "returned",
                          ![i].handle = "released",
                          ![i].ret = task[i].saved_frame_count]
  /\ finished' = Append(finished, i)
  /\ UNCHANGED <<inputs, pc, outdir, video_paths, results, report>>

\* line 96: pool.map returns once every task has ended
MapReturns ==
  /\ pc = "map"
  /\ \A i \in DOMAIN task : Ended(i)
  /\ \A i \in DOMAIN task : task[i].pc = "returned"
  /\ results' = MapResults(task, finished)
  /\ pc' = "collected"
  /\ UNCHANGED <<inputs, outdir, video_paths, task, finished, report>>

\* line 96: pool.map re-raises the exception of a task
MapRaises ==
  /\ pc = "map"
  /\ \A i \in DOMAIN task : Ended(i)
  /\ \E i \in DOMAIN task : task[i].pc = "raised"
  /\ pc' = "raised"
  /\ UNCHANGED <<inputs, outdir, video_paths, task, finished, results, report>>

\* lines 98-119
Summarize ==
  /\ pc = "collected"
  /\ report' = [total_saved_frames |-> SumSeq(results),
                total_size |-> PngBytes(outdir),
                formatted |-> Scale(PngBytes(outdir), 1, 0)]
  /\ pc' = "done"
  /\ UNCHANGED <<inputs, outdir, video_paths, task, finished, results>>

Next ==
  \/ Enumerate
  \/ \E i \in DOMAIN task : Begin(i)
  \/ \E i \in DOMAIN task : RangeRaises(i)
  \/ \E i \in DOMAIN task : LoopEnds(i)
  \/ \E i \in DOMAIN task : \E ok \in BOOLEAN : Iterate(i, ok)
  \/ \E i \in DOMAIN task : Release(i)
  \/ MapReturns
  \/ MapRaises
  \/ Summarize

Spec == Init /\ [][Next]_vars

(* ------------------------- claim vocabulary --------------------------- *)
\* the value of a digit string
RECURSIVE DigitsValue(_)
DigitsValue(s) ==
  IF s = <<>> THEN 0 ELSE 10 * DigitsValue(SubSeq(s, 1, Len(s) - 1)) + s[Len(s)]

VideoOf(i) == fs[video_paths[i].dir][video_paths[i].base]
BadVideo(i) == ~VideoOf(i).opens \/ VideoOf(i).fpsN = 0
ReachedLoop(i) == task[i].fpsN # 0
RanToEnd(i) ==
  task[i].pc = "returned" /\ task[i].handle = "released" /\ ~task[i].broke

RECURSIVE SumRet(_)
SumRet(S) ==
  IF S = {} THEN 0
  ELSE LET i == CHOOSE j \in S : TRUE IN task[i].ret + SumRet(S \ {i})

RECURSIVE RunBytes(_)
RunBytes(dir) ==
  IF dir = {} THEN 0
  ELSE LET f == CHOOSE g \in dir : TRUE
       IN  (IF f.by # 0 THEN f.size ELSE 0) + RunBytes(dir \ {f})

VideoFilesIn(d) ==
  Cardinality({n \in NameSet : fs[d][n].present /\ Lower(n.ext) \in VideoExts})

EnumeratedCount ==
  SumSeq([k \in 1..Len(video_dir_paths) |-> VideoFilesIn(video_dir_paths[k])])

Occurrences(s, x) == Cardinality({k \in 1..Len(s) : s[k] = x})

(* -------------------------------- C1 ---------------------------------- *)
\* C1: no two distinct saved frames, of the same or of different videos,
\* are written to the same path of the output directory.
C1_OutputPathsUnique ==
  \A i \in DOMAIN task : \A j \in DOMAIN task :
    \A k \in 1..Len(task[i].written) : \A l \in 1..Len(task[j].written) :
      task[i].written[k].name = task[j].written[l].name => (i = j /\ k = l)

(* -------------------------------- C2 ---------------------------------- *)
\* C2: a video that cannot be opened or reports frame rate zero returns 0,
\* writes nothing and raises nothing, and with such a video in the batch no
\* other call raises and the batch completes.
C2_FailedVideoDoesNotAbortBatch ==
  \A i \in DOMAIN task :
    (BadVideo(i) /\ task[i].pc # "queued") =>
      /\ task[i].pc = "returned"
      /\ task[i].ret = 0
      /\ task[i].written = <<>>
      /\ \A j \in DOMAIN task : task[j].pc # "raised"
      /\ pc # "raised"

(* -------------------------------- C3 ---------------------------------- *)
\* C3: no process_video call returns with its video handle still open.
C3_HandleReleasedOnReturn ==
  \A i \in DOMAIN task : task[i].pc = "returned" => task[i].handle # "open"

(* -------------------------------- C4 ---------------------------------- *)
\* C4: whenever process_video reaches its frame loop, the frame interval is
\* at least 1.
C4_FrameIntervalAtLeastOne ==
  \A i \in DOMAIN task : task[i].pc = "loop" => task[i].frame_interval >= 1

(* -------------------------------- C5 ---------------------------------- *)
\* C5 (as claimed): when every read succeeds, the number of saved frames
\* differs from L / I by at most 1, where L = total_frames / fps and I >= 1.
\* |saved - total * FpsDen / (fpsN * I)| <= 1, multiplied by fpsN * I.
C5_SavedCountNearLOverI ==
  \A i \in DOMAIN task :
    (RanToEnd(i) /\ frame_interval_seconds >= 1) =>
      Abs(task[i].ret * task[i].fpsN * frame_interval_seconds
            - task[i].total_frames * FpsDen)
        <= task[i].fpsN * frame_interval_seconds

WholeInterval(i) ==
  /\ frame_interval_seconds >= 1
  /\ (task[i].fpsN * frame_interval_seconds) % FpsDen = 0

\* C5 (amended): when every read succeeds, the interval is at least 1 second
\* and fps * I is a whole number of frames, the number of saved frames differs
\* from L / I by at most 1.
C5_SavedCountWholeInterval ==
  \A i \in DOMAIN task :
    (RanToEnd(i) /\ WholeInterval(i)) =>
      Abs(task[i].ret * task[i].fpsN * frame_interval_seconds
            - task[i].total_frames * FpsDen)
        <= task[i].fpsN * frame_interval_seconds

C5_Witness ==
  \E i \in DOMAIN task :
    /\ RanToEnd(i)
    /\ WholeInterval(i)
    /\ task[i].ret >= 2
    /\ (task[i].total_frames * FpsDen) % (task[i].fpsN * frame_interval_seconds) # 0

(* -------------------------------- C6 ---------------------------------- *)
\* C6 (as claimed): the frame interval equals round(fps * interval_seconds).
C6_IntervalIsRounded ==
  \A i \in DOMAIN task :
    ReachedLoop(i) =>
      task[i].frame_interval = RoundDiv(task[i].fpsN * frame_interval_seconds, FpsDen)

\* C6 (amended): the frame interval is fps * interval_seconds truncated
\* toward zero: the integer n of the same sign with |n| <= |fps * I| < |n| + 1.
C6_IntervalIsTruncated ==
  \A i \in DOMAIN task :
    ReachedLoop(i) =>
      LET p == task[i].fpsN * frame_interval_seconds
          n == task[i].frame_interval
      IN  IF p >= 0
            THEN n >= 0 /\ n * FpsDen <= p /\ p < (n + 1) * FpsDen
            ELSE n <= 0 /\ (n - 1) * FpsDen < p /\ p <= n * FpsDen

C6_Witness ==
  \E i \in DOMAIN task :
    /\ ReachedLoop(i)
    /\ task[i].frame_interval # RoundDiv(task[i].fpsN * frame_interval_seconds, FpsDen)

(* -------------------------------- C7 ---------------------------------- *)
\* C7: the aggregate size is taken after all workers have finished and is the
\* sum of the sizes of exactly the PNG files written by the workers of the run.
C7_SizeIsBytesWrittenThisRun ==
  pc = "done" =>
    /\ \A i \in DOMAIN task : Ended(i)
    /\ report.total_size = RunBytes(outdir)

(* -------------------------------- C8 ---------------------------------- *)
\* C8: the indices of the file names a call writes are 0, 1, ..., n-1 in
\* write order, and n is the count the call returns.
C8_IndicesSequential ==
  \A i \in DOMAIN task :
    /\ \A k \in 1..Len(task[i].written) :
         /\ DigitsValue(task[i].written[k].name.digits) = k - 1
         /\ Len(task[i].written[k].name.digits) = PadWidth
         /\ task[i].written[k].name.stem = video_paths[i].base.stem
    /\ task[i].pc = "returned" => task[i].ret = Len(task[i].written)

C8_Witness ==
  \E i \in DOMAIN task :
    task[i].pc = "returned" /\ task[i].broke /\ task[i].ret >= 2

(* -------------------------------- C9 ---------------------------------- *)
\* C9: the reported total is the sum of the counts returned by the calls,
\* one call per enumerated file, results in input order.
C9_TotalIsSumOfCounts ==
  pc = "done" =>
    /\ Len(video_paths) = EnumeratedCount
    /\ DOMAIN task = 1..Len(video_paths)
    /\ \A i \in DOMAIN task : Occurrences(finished, i) = 1
    /\ Len(results) = Len(video_paths)
    /\ \A i \in DOMAIN task :
         results[i] = task[i].ret /\ results[i] = Len(task[i].written)
    /\ report.total_saved_frames = SumRet(DOMAIN task)

C9_Witness ==
  /\ pc = "done"
  /\ Len(finished) = 2
  /\ finished[1] = 2
  /\ results[1] # results[2]
  /\ report.total_saved_frames >= 2

(* -------------------------------- C10 --------------------------------- *)
C10_Prefix ==
  \A i \in DOMAIN task :
    task[i].frame_interval >= 1 =>
      LET t == task[i] IN
      /\ \A k \in 1..Len(t.seeks) :
           /\ t.seeks[k] = (k - 1) * t.frame_interval
           /\ 0 <= t.seeks[k]
           /\ t.seeks[k] < t.total_frames
      /\ \A k \in 1..Len(t.written) :
           /\ t.written[k].pos = (k - 1) * t.frame_interval
           /\ DigitsValue(t.written[k].name.digits) = k - 1
      /\ Len(t.written) <= Len(t.seeks)
      /\ (Len(t.seeks) - 1) * t.frame_interval < t.total_frames
      /\ \A f \in outdir :
           f.by = i => f.src = DigitsValue(f.name.digits) * t.frame_interval

C10_NothingAfterFailedRead ==
  \A i \in DOMAIN task :
    task[i].broke =>
      task'[i].seeks = task[i].seeks /\ task'[i].written = task[i].written

\* C10: the k-th saved file holds source frame k * frame_interval, every seek
\* target lies in [0, total_frames), the loop runs at most
\* ceil(total_frames / frame_interval) times, and after a failed read
\* nothing more is sought or saved.
C10_SavedFramesArePrefix ==
  [](C10_Prefix) /\ [][C10_NothingAfterFailedRead]_vars

C10_Witness ==
  \E i \in DOMAIN task :
    /\ task[i].frame_interval >= 2
    /\ task[i].broke
    /\ Len(task[i].written) >= 1

====
